---- MODULE Spec2Model ----
(***************************************************************************)
(* Model of the scheduling engine of rrowniak/planner:                     *)
(*   calendar.rs       BusinessDaysCalendar::day_info, in_date_obj_vec     *)
(*   gantt_builder.rs  build_task_graph, Graph::calc_start_time,           *)
(*                     get_day_info, get_working_day_len,                  *)
(*                     ResourceAllocation::add, process                    *)
(*                                                                         *)
(* f64 values are modelled as exact rationals [n, d] (d > 0, lowest        *)
(* terms).  A NaiveDate is the number of days since Monday 2024-01-01, so  *)
(* weekday(d) = d % 7 with 0 = Monday.  Strings naming tasks are numbers.  *)
(***************************************************************************)
EXTENDS Integers, Sequences, FiniteSets, TLC

(* ------------------------------ bounds -------------------------------- *)
\* largest number of tasks of a generated project
MaxTasks == 3
\* largest number of dependency edges of a generated task graph
MaxEdges == 3
\* last calendar day the burn-down loop is followed to
MaxDay == 12

(* ----------------------- exact rational arithmetic --------------------- *)
RECURSIVE Gcd(_, _)
Gcd(a, b) == IF b = 0 THEN a ELSE Gcd(b, a % b)

Abs(i) == IF i < 0 THEN -i ELSE i

Norm(n, d) ==
    LET g == Gcd(Abs(n), Abs(d))
        s == IF d < 0 THEN -1 ELSE 1
    IN  [n |-> s * (n \div g), d |-> s * (d \div g)]

Q(n, d) == Norm(n, d)
Zero == [n |-> 0, d |-> 1]
One == [n |-> 1, d |-> 1]
FromInt(i) == [n |-> i, d |-> 1]

RAdd(x, y) ==
    LET g == Gcd(x.d, y.d)
    IN  Norm(x.n * (y.d \div g) + y.n * (x.d \div g), (x.d \div g) * y.d)
RNeg(x) == [n |-> -x.n, d |-> x.d]
RSub(x, y) == RAdd(x, RNeg(y))
RMul(x, y) ==
    LET a == Norm(x.n, y.d)
        b == Norm(y.n, x.d)
    IN  [n |-> a.n * b.n, d |-> a.d * b.d]
RDiv(x, y) == RMul(x, Norm(y.d, y.n))
RLt(x, y) ==
    LET g == Gcd(x.d, y.d)
    IN  x.n * (y.d \div g) < y.n * (x.d \div g)
RLe(x, y) == ~RLt(y, x)
RAbs(x) == [n |-> Abs(x.n), d |-> x.d]
RMax(x, y) == IF RLt(x, y) THEN y ELSE x
\* variant: rounds a whole number up to the next one
RCeil_next(x) == (x.n \div x.d) + 1
\* f64::ceil
RCeil(x) == -((-x.n) \div x.d)
\* `x as u64`: truncation toward zero, negative values saturate to 0
AsU64(x) == IF x.n < 0 THEN 0 ELSE x.n \div x.d
\* `x % 1.0`: the remainder has the sign of x
RMod1(x) ==
    IF x.n >= 0 THEN [n |-> x.n % x.d, d |-> x.d]
    ELSE [n |-> -((-x.n) % x.d), d |-> x.d]

(* --------------------------- calendar.rs ------------------------------- *)
Weekday(d) == d % 7

DateOf(dd) == [kind |-> "Date", f |-> dd, t |-> dd]
RangeOf(f, t) == [kind |-> "Range", f |-> f, t |-> t]

NonWorking == [kind |-> "NonWorking", h |-> 0]
NonWorkingPubHoliday == [kind |-> "NonWorkingPubHoliday", h |-> 0]
WorkerHolidays == [kind |-> "WorkerHolidays", h |-> 0]
WorkerOtherDuties == [kind |-> "WorkerOtherDuties", h |-> 0]
WorkingDay(h) == [kind |-> "WorkingDay", h |-> h]

\* one entry of the public-holiday list matched against d
PubHolidayMatches(h, d) ==
    IF h.kind = "Date" THEN h.f = d
    ELSE h.f <= d \/ h.t >= d

day_info(cal, d) ==
    IF Weekday(d) \in cal.closed_days THEN NonWorking
    ELSE IF \E i \in 1..Len(cal.public_holidays) :
                PubHolidayMatches(cal.public_holidays[i], d)
         THEN NonWorkingPubHoliday
         ELSE WorkingDay(cal.working_hrs_in_day)

in_date_obj_vec(d, dates) ==
    \E i \in 1..Len(dates) :
        \/ dates[i].kind = "Date" /\ dates[i].f = d
        \/ dates[i].kind = "Range" /\ dates[i].f <= d /\ d <= dates[i].t

(* ------------------------- gantt_builder.rs ---------------------------- *)
get_day_info(d, cal, worker) ==
    LET di == day_info(cal, d)
    IN  IF di.kind # "WorkingDay" THEN di
        ELSE IF in_date_obj_vec(d, worker.holidays) THEN WorkerHolidays
        ELSE IF in_date_obj_vec(d, worker.other_duties) THEN WorkerOtherDuties
        ELSE WorkingDay(di.h)

\* Option<T>
None == [some |-> FALSE, v |-> Zero]
Some(x) == [some |-> TRUE, v |-> x]

\* lookup.get(id): the map holds, for each id, the last task inserted with it
Lookup(ptasks, id) ==
    LET hits == {i \in 1..Len(ptasks) : ptasks[i].id = id}
    IN  IF hits = {} THEN 0 ELSE CHOOSE i \in hits : \A j \in hits : j <= i

\* graph[i].parents after the second pass
ParentsOf(ptasks, i) ==
    [k \in 1..Len(ptasks[i].after) |-> Lookup(ptasks, ptasks[i].after[k])]

\* how often node p is pushed as parent of node i
RECURSIVE ChildCopies(_, _, _)
ChildCopies(pars, p, i) ==
    IF pars = <<>> THEN <<>>
    ELSE (IF Head(pars) = p THEN <<i>> ELSE <<>>) \o ChildCopies(Tail(pars), p, i)

\* graph[p].children after the second pass: nodes are visited in index order
RECURSIVE ChildrenFrom(_, _, _)
ChildrenFrom(ptasks, p, i) ==
    IF i > Len(ptasks) THEN <<>>
    ELSE ChildCopies(ParentsOf(ptasks, i), p, i) \o ChildrenFrom(ptasks, p, i + 1)

\* lookup.get(&after).unwrap() fails for some dependency id
UnknownDependency(ptasks) ==
    \E i \in 1..Len(ptasks) : \E k \in 1..Len(ptasks[i].after) :
        Lookup(ptasks, ptasks[i].after[k]) = 0

\* the elements of a set of indices in increasing order
RECURSIVE SortedSeq(_)
SortedSeq(S) ==
    IF S = {} THEN <<>>
    ELSE LET m == CHOOSE x \in S : \A y \in S : x <= y
         IN  <<m>> \o SortedSeq(S \ {m})

\* variant: every node is a starting point, `task.after.is_empty()` not tested
build_task_graph_all_start(ptasks) ==
    [starting_points |-> [i \in 1..Len(ptasks) |-> i],
     graph |->
        [i \in 1..Len(ptasks) |->
            [task_id |-> i,
             cumulative_days |-> None,
             parents |-> ParentsOf(ptasks, i),
             children |-> ChildrenFrom(ptasks, i, 1)]]]

\* variant: no node is recorded as a child of its parents
build_task_graph_no_children(ptasks) ==
    [starting_points |->
        SortedSeq({i \in 1..Len(ptasks) : ptasks[i].after = <<>>}),
     graph |->
        [i \in 1..Len(ptasks) |->
            [task_id |-> i,
             cumulative_days |-> None,
             parents |-> ParentsOf(ptasks, i),
             children |-> <<>>]]]

build_task_graph(ptasks) ==
    [starting_points |->
        SortedSeq({i \in 1..Len(ptasks) : ptasks[i].after = <<>>}),
     graph |->
        [i \in 1..Len(ptasks) |->
            [task_id |-> i,
             cumulative_days |-> None,
             parents |-> ParentsOf(ptasks, i),
             children |-> ChildrenFrom(ptasks, i, 1)]]]

\* Graph::calc_start_time: ok = the return value, value = what the cell is set to
RECURSIVE StartTimeFrom(_, _, _)
StartTimeFrom(g, pars, acc) ==
    IF pars = <<>> THEN [ok |-> TRUE, value |-> acc]
    ELSE LET par == g[Head(pars)]
         IN  IF par.cumulative_days.some
             THEN StartTimeFrom(g, Tail(pars), RMax(acc, par.cumulative_days.v))
             ELSE [ok |-> FALSE, value |-> Zero]

\* variant: `cumulative_days = s`, the last parent's offset instead of the maximum
RECURSIVE LastTimeFrom(_, _, _)
LastTimeFrom(g, pars, acc) ==
    IF pars = <<>> THEN [ok |-> TRUE, value |-> acc]
    ELSE LET par == g[Head(pars)]
         IN  IF par.cumulative_days.some
             THEN LastTimeFrom(g, Tail(pars), par.cumulative_days.v)
             ELSE [ok |-> FALSE, value |-> Zero]
calc_start_time_last(g, n) == LastTimeFrom(g, g[n].parents, Zero)

\* variant: a parent that is not computed yet is skipped instead of deferring
RECURSIVE SkipUnsetFrom(_, _, _)
SkipUnsetFrom(g, pars, acc) ==
    IF pars = <<>> THEN [ok |-> TRUE, value |-> acc]
    ELSE LET par == g[Head(pars)]
         IN  IF par.cumulative_days.some
             THEN SkipUnsetFrom(g, Tail(pars), RMax(acc, par.cumulative_days.v))
             ELSE SkipUnsetFrom(g, Tail(pars), acc)
calc_start_time_skip_unset(g, n) == SkipUnsetFrom(g, g[n].parents, Zero)

calc_start_time(g, n) == StartTimeFrom(g, g[n].parents, Zero)

\* ResourceAllocation::add
EmptyMap == <<>>
MapGet(m, k, dflt) == IF k \in DOMAIN m THEN m[k] ELSE dflt
MapPut(m, k, v) == [x \in DOMAIN m \cup {k} |-> IF x = k THEN v ELSE m[x]]

\* variant: a second booking of a worker's day replaces the hours
ResourceAllocationAdd_replace(ra, worker, date, day, hours) ==
    MapPut(ra, worker,
           MapPut(MapGet(ra, worker, EmptyMap), date, [hours |-> hours, day |-> day]))

ResourceAllocationAdd(ra, worker, date, day, hours) ==
    LET m == MapGet(ra, worker, EmptyMap)
        e == IF date \in DOMAIN m
             THEN [hours |-> RAdd(m[date].hours, hours), day |-> day]
             ELSE [hours |-> hours, day |-> day]
    IN  MapPut(ra, worker, MapPut(m, date, e))

\* workers_absence.entry(worker_name).or_default().push(d)
AbsencePush(wa, worker, d) == MapPut(wa, worker, Append(MapGet(wa, worker, <<>>), d))

\* variant: a non-working weekday is pushed to workers_absence as well
get_working_day_len_absence(di, d, worker_name, wa, ra, pause, pubhol) ==
    IF di.kind = "WorkingDay" THEN
        [ret |-> TRUE, h |-> di.h,
         workers_absence |-> wa,
         resource_allocation |-> ra,
         pause_days |-> pause,
         public_holidays |-> pubhol]
    ELSE
        [ret |-> FALSE, h |-> 0,
         workers_absence |-> AbsencePush(wa, worker_name, d),
         resource_allocation |->
            IF di.kind = "WorkerHolidays"
            THEN ResourceAllocationAdd(ra, worker_name, d, "Holidays", Zero)
            ELSE IF di.kind = "WorkerOtherDuties"
            THEN ResourceAllocationAdd(ra, worker_name, d, "OtherDuties", Zero)
            ELSE ResourceAllocationAdd(ra, worker_name, d, "PubHolidays", Zero),
         pause_days |-> Append(pause, d),
         public_holidays |->
            IF di.kind = "NonWorkingPubHoliday" THEN Append(pubhol, d) ELSE pubhol]

\* get_working_day_len: ret is the returned Option<u32>, the other fields are
\* the four collections after the call
get_working_day_len(di, d, worker_name, wa, ra, pause, pubhol) ==
    IF di.kind \in {"WorkerHolidays", "WorkerOtherDuties"} THEN
        [ret |-> FALSE, h |-> 0,
         workers_absence |-> AbsencePush(wa, worker_name, d),
         resource_allocation |->
            IF di.kind = "WorkerHolidays"
            THEN ResourceAllocationAdd(ra, worker_name, d, "Holidays", Zero)
            ELSE ResourceAllocationAdd(ra, worker_name, d, "OtherDuties", Zero),
         pause_days |-> Append(pause, d),
         public_holidays |-> pubhol]
    ELSE IF di.kind = "WorkingDay" THEN
        [ret |-> TRUE, h |-> di.h,
         workers_absence |-> wa,
         resource_allocation |-> ra,
         pause_days |-> pause,
         public_holidays |-> pubhol]
    ELSE IF di.kind = "NonWorkingPubHoliday" THEN
        [ret |-> FALSE, h |-> 0,
         workers_absence |-> AbsencePush(wa, worker_name, d),
         resource_allocation |-> ResourceAllocationAdd(ra, worker_name, d, "PubHolidays", Zero),
         pause_days |-> Append(pause, d),
         public_holidays |-> Append(pubhol, d)]
    ELSE
        [ret |-> FALSE, h |-> 0,
         workers_absence |-> wa,
         resource_allocation |-> ResourceAllocationAdd(ra, worker_name, d, "PubHolidays", Zero),
         pause_days |-> Append(pause, d),
         public_holidays |-> pubhol]

\* the thresholds of the burn-down and of the final classification
LeftDayEps == Q(1, 1000)
OverloadedFrom == Q(8001, 1000)
UnderloadedTo == Q(7999, 1000)
UnderloadedFrom == Q(1, 1000)
NominalDay == FromInt(8)

\* `hours_to_burn.abs() < 1e-10`, computed without leaving 32-bit integers:
\* |n/d| < 10^-10  iff  |n| * 10^5 < ceil(d / 10^5)
TaskEndsBy(x) ==
    \/ x.n = 0
    \/ /\ Abs(x.n) <= 21474
       /\ Abs(x.n) * 100000 < (x.d + 99999) \div 100000

\* variant: the worker's focus factor is used whether or not the assignment
\* overrides it
DayBudget_worker(assignment, worker, working_hrs, cumulative_days) ==
    LET effective == RMul(FromInt(working_hrs), worker.focus_factor)
        left_day == RMod1(cumulative_days)
        remaining_fraction == RSub(One, left_day)
    IN  IF RLt(LeftDayEps, RAbs(left_day))
        THEN [effective_working_hrs |-> RMul(effective, remaining_fraction),
              cumulative_day_len |-> RMul(One, remaining_fraction)]
        ELSE [effective_working_hrs |-> effective,
              cumulative_day_len |-> One]

\* variant: the day is scaled for every non-zero fractional part
DayBudget_any(assignment, worker, working_hrs, cumulative_days) ==
    LET focus_factor == IF assignment.focus_factor.some
                        THEN assignment.focus_factor.v
                        ELSE worker.focus_factor
        effective == RMul(FromInt(working_hrs), focus_factor)
        left_day == RMod1(cumulative_days)
        remaining_fraction == RSub(One, left_day)
    IN  IF left_day # Zero
        THEN [effective_working_hrs |-> RMul(effective, remaining_fraction),
              cumulative_day_len |-> RMul(One, remaining_fraction)]
        ELSE [effective_working_hrs |-> effective,
              cumulative_day_len |-> One]

\* focus factor, effective hours and usable day length of a working day
DayBudget(assignment, worker, working_hrs, cumulative_days) ==
    LET focus_factor == IF assignment.focus_factor.some
                        THEN assignment.focus_factor.v
                        ELSE worker.focus_factor
        effective == RMul(FromInt(working_hrs), focus_factor)
        left_day == RMod1(cumulative_days)
        remaining_fraction == RSub(One, left_day)
    IN  IF RLt(LeftDayEps, RAbs(left_day))
        THEN [effective_working_hrs |-> RMul(effective, remaining_fraction),
              cumulative_day_len |-> RMul(One, remaining_fraction)]
        ELSE [effective_working_hrs |-> effective,
              cumulative_day_len |-> One]

\* variant: the thresholds with the other bound inclusive
Reclassify_bounds(e) ==
    IF RLt(OverloadedFrom, e.hours) THEN [e EXCEPT !.day = "Overloaded"]
    ELSE IF RLt(e.hours, UnderloadedTo) /\ RLe(UnderloadedFrom, e.hours)
         THEN [e EXCEPT !.day = "Underloaded"]
    ELSE IF RLe(UnderloadedTo, e.hours) /\ RLe(e.hours, OverloadedFrom)
         THEN [e EXCEPT !.day = "Fine"]
    ELSE e

\* variant: the test for Overloaded comes after the one for Fine and is
\* never reached from 8.001 up to 9 hours
Reclassify_late(e) ==
    IF RLe(e.hours, UnderloadedTo) /\ RLe(UnderloadedFrom, e.hours)
         THEN [e EXCEPT !.day = "Underloaded"]
    ELSE IF RLt(UnderloadedTo, e.hours) /\ RLt(e.hours, FromInt(9))
         THEN [e EXCEPT !.day = "Fine"]
    ELSE IF RLe(OverloadedFrom, e.hours) THEN [e EXCEPT !.day = "Overloaded"]
    ELSE e

\* variant: an entry below the lowest threshold becomes Unassigned
Reclassify_unassigned(e) ==
    IF RLe(OverloadedFrom, e.hours) THEN [e EXCEPT !.day = "Overloaded"]
    ELSE IF RLe(e.hours, UnderloadedTo) /\ RLe(UnderloadedFrom, e.hours)
         THEN [e EXCEPT !.day = "Underloaded"]
    ELSE IF RLt(UnderloadedTo, e.hours) /\ RLt(e.hours, OverloadedFrom)
         THEN [e EXCEPT !.day = "Fine"]
    ELSE [e EXCEPT !.day = "Unassigned"]

\* the reclassification of one ledger entry by its committed hours
Reclassify(e) ==
    IF RLe(OverloadedFrom, e.hours) THEN [e EXCEPT !.day = "Overloaded"]
    ELSE IF RLe(e.hours, UnderloadedTo) /\ RLe(UnderloadedFrom, e.hours)
         THEN [e EXCEPT !.day = "Underloaded"]
    ELSE IF RLt(UnderloadedTo, e.hours) /\ RLt(e.hours, OverloadedFrom)
         THEN [e EXCEPT !.day = "Fine"]
    ELSE e

Unassigned == [hours |-> Zero, day |-> "Unassigned"]

\* variant: the walk stops before project_end (`d >= project_end`)
FinalizeLedger_short(ra, project_begin, pend) ==
    [w \in DOMAIN ra |->
        [d \in DOMAIN ra[w] \cup (project_begin..(pend - 1)) |->
            IF d \in project_begin..(pend - 1)
            THEN Reclassify(MapGet(ra[w], d, Unassigned))
            ELSE ra[w][d]]]

\* "fill resource allocation unassigned": every worker of the ledger, every
\* day from project_begin to project_end
FinalizeLedger(ra, project_begin, pend) ==
    [w \in DOMAIN ra |->
        [d \in DOMAIN ra[w] \cup (project_begin..pend) |->
            IF d \in project_begin..pend
            THEN Reclassify(MapGet(ra[w], d, Unassigned))
            ELSE ra[w][d]]]

\* the index of the first element of a sequence that is in a set of indices,
\* 0 when there is none
FirstOf(hits) ==
    IF hits = {} THEN 0 ELSE CHOOSE i \in hits : \A j \in hits : i <= j
\* variant: a task without an assignment record falls to the first record
FindAssignment_fallback(assignments, id) ==
    IF assignments = <<>> THEN 0
    ELSE IF \A i \in 1..Len(assignments) : assignments[i].task # id THEN 1
    ELSE FirstOf({i \in 1..Len(assignments) : assignments[i].task = id})
\* proj.assignments.iter().find(|a| a.task == id)
FindAssignment(assignments, id) ==
    FirstOf({i \in 1..Len(assignments) : assignments[i].task = id})
\* proj.team.iter().find(|u| u.name == assignment.owner)
FindWorker(team, owner) ==
    FirstOf({i \in 1..Len(team) : team[i].name = owner})

RECURSIVE Reverse(_)
Reverse(s) == IF s = <<>> THEN <<>> ELSE Append(Reverse(Tail(s)), Head(s))

(* ------------------------------ inputs --------------------------------- *)
\* project.rs: Task, Assignment, TeamMember, ProjectConfig; calendar.rs:
\* BusinessDaysCalendar
Task(id, estimate, after) == [id |-> id, estimate |-> estimate, after |-> after]
Assignment(task, owner, ff) == [task |-> task, owner |-> owner, focus_factor |-> ff]
TeamMember(name, cal, ff, hol, od) ==
    [name |-> name, base_calendar |-> cal, focus_factor |-> ff,
     holidays |-> hol, other_duties |-> od]
Calendar(closed, hrs, hol) ==
    [closed_days |-> closed, working_hrs_in_day |-> hrs, public_holidays |-> hol]
ProjectConfig(start, team, ptasks, assignments) ==
    [start_date |-> start, team |-> team, tasks |-> ptasks, assignments |-> assignments]
Input(p, cals) == [proj |-> p, calendars |-> cals]

Weekend == {5, 6}
CalA == Calendar(Weekend, 8, <<>>)
CalB == Calendar({6}, 8, <<>>)
BothCalendars == [c \in {"calA", "calB"} |-> IF c = "calA" THEN CalA ELSE CalB]
W1 == TeamMember("w1", "calA", One, <<>>, <<>>)
W2 == TeamMember("w2", "calB", Q(1, 2), <<>>, <<>>)

\* task graphs: every set of at most MaxEdges dependency edges <<child, parent>>
\* over at most MaxTasks tasks (cycles and self-dependencies included)
EdgeSets(n) ==
    {E \in SUBSET ((1..n) \X (1..n)) : Cardinality(E) <= MaxEdges}
EstimateCycles ==
    << <<One, Q(1, 2), Q(1, 4)>>, <<Q(1, 2), Q(3, 2), One>> >>
OwnerCycles == << <<"w1", "w1">>, <<"w1", "w2">> >>
GraphInput(n, E, ep, op) ==
    Input(ProjectConfig(0, <<W1, W2>>,
            [i \in 1..n |->
                Task(i, EstimateCycles[ep][((i - 1) % 3) + 1],
                     SortedSeq({p \in 1..n : <<i, p>> \in E}))],
            [i \in 1..n |-> Assignment(i, OwnerCycles[op][((i - 1) % 2) + 1], None)]),
          BothCalendars)
(* ------------------------------- state --------------------------------- *)
VARIABLES
    proj,                \* the ProjectConfig given to process
    calendars,           \* the calendar map given to process
    pc,                  \* "build", "loop", "burn", "ok", "err", "panic"
    graph,               \* Graph::graph, the cells cumulative_days included
    task_queue,          \* the worklist
    tasks,               \* the emitted tasks
    workers_absence,
    public_holidays,
    resource_allocation,
    project_end,
    cur,                 \* the locals of the worklist iteration being run
    ret,                 \* what process returned
    burn_log,            \* history: every call of ResourceAllocation::add
    cell_writes,         \* history: every write of a cumulative_days cell
    start_offset,        \* history: the offset each task started from
    deferred,            \* history: the nodes that were pushed back
    first_run            \* history: the result of an earlier run on the same input

vars == <<proj, calendars, pc, graph, task_queue, tasks, workers_absence,
          public_holidays, resource_allocation, project_end, cur, ret,
          burn_log, cell_writes, start_offset, deferred, first_run>>

project_begin == proj.start_date

NoCur ==
    [node |-> 0,
     assignment |-> Assignment(0, "", None),
     worker |-> TeamMember("", "", Zero, <<>>, <<>>),
     worker_cal |-> Calendar({}, 0, <<>>),
     start_on |-> 0,
     pause_days |-> <<>>,
     hours_to_burn |-> Zero,
     cumulative_days |-> Zero,
     d |-> 0]

GanttData(t, closed, wa, ph, ra) ==
    [tasks |-> t, project_starts |-> project_begin, closed_days |-> closed,
     workers_absence |-> wa, public_holidays |-> ph, resource_allocation |-> ra]
NoData == [tasks |-> <<>>, project_starts |-> 0, closed_days |-> {},
           workers_absence |-> EmptyMap, public_holidays |-> <<>>,
           resource_allocation |-> EmptyMap]
Returned(kind, msg, data) == [kind |-> kind, msg |-> msg, data |-> data]

GivenInput(inp) == proj = inp.proj /\ calendars = inp.calendars

\* the projects and calendars process is run on
GraphInputs ==
    \E n \in 1..MaxTasks : \E E \in EdgeSets(n) : \E ep \in 1..2, op \in 1..2 :
        GivenInput(GraphInput(n, E, ep, op))

\* dependency lists with repeated and reordered ids, and with id 9 that no
\* task has
ListedAfters == {<<>>, <<1>>, <<2>>, <<1, 1>>, <<2, 1>>, <<9>>, <<1, 9>>}
ListedInputs ==
    \E a1 \in ListedAfters, a2 \in ListedAfters,
       t3 \in {<<>>, <<Task(3, One, <<2, 1>>)>>, <<Task(3, One, <<1, 2, 1>>)>>} :
        GivenInput(Input(ProjectConfig(0, <<W1, W2>>,
                <<Task(1, One, a1), Task(2, Q(1, 2), a2)>> \o t3,
                <<Assignment(1, "w1", None), Assignment(2, "w1", None),
                  Assignment(3, "w2", None)>>),
              BothCalendars))

\* estimates around whole days and around the thresholds, on one worker
Estimates ==
    {Zero, Q(1, 16000), Q(1, 8000), Q(1, 2), Q(7999, 8000), One,
     Q(16001, 16000), Q(8001, 8000), Q(3, 2), FromInt(2)}
NumericInputs ==
    \E e1 \in Estimates, e2 \in Estimates, a2 \in {<<>>, <<1>>},
       ff2 \in {None, Some(Q(1, 2))}, hrs \in {8, 4} :
        GivenInput(Input(ProjectConfig(0, <<W1>>,
                <<Task(1, e1, <<>>), Task(2, e2, a2)>>,
                <<Assignment(1, "w1", None), Assignment(2, "w1", ff2)>>),
              [c \in {"calA"} |-> Calendar(Weekend, hrs, <<>>)]))

\* calendars and absences
CalendarInputs ==
    \E start \in {0, 4},
       closed \in {Weekend, {}, 0..6},
       pub \in {<<>>, <<DateOf(1)>>, <<DateOf(1), DateOf(5)>>, <<RangeOf(2, 3)>>},
       hol \in {<<>>, <<DateOf(1)>>, <<RangeOf(1, 2)>>, <<DateOf(7)>>},
       od \in {<<>>, <<DateOf(1)>>, <<DateOf(2)>>},
       t2 \in {<<>>, <<Task(2, Q(3, 2), <<1>>)>>} :
        GivenInput(Input(ProjectConfig(start,
                <<TeamMember("w1", "calA", One, hol, od)>>,
                <<Task(1, One, <<>>)>> \o t2,
                <<Assignment(1, "w1", None), Assignment(2, "w1", None)>>),
              [c \in {"calA"} |-> Calendar(closed, 8, pub)]))

\* missing assignments, workers and calendars
FaultyInputs ==
    \E a2 \in {<<>>, <<1>>},
       team \in {<<W1, W2>>,
                 <<TeamMember("w1", "calX", One, <<>>, <<>>), W2>>},
       asg \in {<<Assignment(1, "w1", None), Assignment(2, "w2", None)>>,
                <<Assignment(1, "w1", None)>>,
                <<Assignment(2, "w1", None)>>,
                <<Assignment(1, "w1", None), Assignment(2, "wx", None)>>,
                <<Assignment(1, "w1", None), Assignment(1, "w2", None),
                  Assignment(2, "w2", None)>>},
       cals \in {BothCalendars, EmptyMap, [c \in {"calB"} |-> CalB]} :
        GivenInput(Input(ProjectConfig(0, team,
                <<Task(1, One, <<>>), Task(2, One, a2)>>, asg), cals))

\* estimates and focus factors of either sign, days without working hours
SignedInputs ==
    \E e1 \in {FromInt(-2), FromInt(-1), Q(1, 2)},
       ff \in {Zero, FromInt(-1), One},
       ovr \in {None, Some(Zero)},
       hrs \in {8, 0} :
        GivenInput(Input(ProjectConfig(0,
                <<TeamMember("w1", "calA", ff, <<>>, <<>>)>>,
                <<Task(1, e1, <<>>)>>,
                <<Assignment(1, "w1", ovr)>>),
              [c \in {"calA"} |-> Calendar(Weekend, hrs, <<>>)]))

\* two independent tasks of one worker that meet the same days
SharedDayInputs ==
    \E e1 \in {Q(1, 2), One}, e2 \in {Q(1, 2), One},
       pub \in {<<>>, <<DateOf(0)>>},
       hol \in {<<>>, <<DateOf(0)>>, <<DateOf(1)>>},
       od \in {<<>>, <<DateOf(0)>>} :
        GivenInput(Input(ProjectConfig(0,
                <<TeamMember("w1", "calA", One, hol, od)>>,
                <<Task(1, e1, <<>>), Task(2, e2, <<>>)>>,
                <<Assignment(1, "w1", None), Assignment(2, "w1", None)>>),
              [c \in {"calA"} |-> Calendar(Weekend, 8, pub)]))

\* no earlier run
NoRun == [some |-> FALSE, tasks |-> {}, ledger |-> EmptyMap]

\* the state process starts in
Entry ==
    /\ pc = "build"
    /\ graph = <<>>
    /\ task_queue = <<>>
    /\ tasks = <<>>
    /\ workers_absence = EmptyMap
    /\ public_holidays = <<>>
    /\ resource_allocation = EmptyMap
    /\ project_end = 0
    /\ cur = NoCur
    /\ ret = Returned("None", "", NoData)
    /\ burn_log = <<>>
    /\ cell_writes = <<>>
    /\ start_offset = <<>>
    /\ deferred = {}

Init ==
    /\ \/ GraphInputs
       \/ ListedInputs
       \/ NumericInputs
       \/ CalendarInputs
       \/ FaultyInputs
       \/ SignedInputs
       \/ SharedDayInputs
    /\ Entry
    /\ first_run = NoRun

Panic ==
    /\ pc' = "panic"
    /\ ret' = Returned("Panic", "", NoData)

(* ------------------------------ process -------------------------------- *)
\* lines 235-243: build the graph, seed the worklist
BuildGraph ==
    /\ pc = "build"
    /\ IF UnknownDependency(proj.tasks)
       THEN /\ Panic
            /\ UNCHANGED <<graph, task_queue, project_end, cell_writes, start_offset>>
       ELSE LET g == build_task_graph(proj.tasks)
            IN  /\ graph' = g.graph
                /\ task_queue' = g.starting_points
                /\ project_end' = project_begin
                /\ cell_writes' = [n \in 1..Len(g.graph) |-> <<>>]
                /\ start_offset' = [n \in 1..Len(g.graph) |-> None]
                /\ pc' = "loop"
                /\ ret' = ret
    /\ UNCHANGED <<first_run, proj, calendars, tasks, workers_absence, public_holidays,
                   resource_allocation, cur, burn_log, deferred>>

\* lines 245-253: the popped node is already computed
SkipNode ==
    /\ pc = "loop"
    /\ task_queue # <<>>
    /\ graph[Head(task_queue)].cumulative_days.some
    /\ task_queue' = Tail(task_queue)
    /\ UNCHANGED <<first_run, proj, calendars, pc, graph, tasks, workers_absence,
                   public_holidays, resource_allocation, project_end, cur, ret,
                   burn_log, cell_writes, start_offset, deferred>>

\* lines 255-259: a parent is not computed yet
DeferNode ==
    /\ pc = "loop"
    /\ task_queue # <<>>
    /\ ~graph[Head(task_queue)].cumulative_days.some
    /\ ~calc_start_time(graph, Head(task_queue)).ok
    /\ task_queue' = Append(Tail(task_queue), Head(task_queue))
    /\ deferred' = deferred \cup {Head(task_queue)}
    /\ UNCHANGED <<first_run, proj, calendars, pc, graph, tasks, workers_absence,
                   public_holidays, resource_allocation, project_end, cur, ret,
                   burn_log, cell_writes, start_offset>>

AllParentsSet(g, n) ==
    \A k \in 1..Len(g[n].parents) : g[g[n].parents[k]].cumulative_days.some

\* lines 255-288: the node is ready; its children go to the front, the
\* assignment, the worker and the calendar are looked up
StartTask ==
    /\ pc = "loop"
    /\ task_queue # <<>>
    /\ ~graph[Head(task_queue)].cumulative_days.some
    /\ calc_start_time(graph, Head(task_queue)).ok
    /\ LET n == Head(task_queue)
           task == proj.tasks[graph[n].task_id]
           cumulative_days == calc_start_time(graph, n).value
           a == FindAssignment(proj.assignments, task.id)
           w == IF a = 0 THEN 0
                ELSE FindWorker(proj.team, proj.assignments[a].owner)
       IN  /\ graph' = [graph EXCEPT ![n].cumulative_days = Some(cumulative_days)]
           /\ cell_writes' = [cell_writes EXCEPT ![n] =
                    Append(@, [site |-> "calc_start_time",
                               parents_set |-> AllParentsSet(graph, n)])]
           /\ task_queue' = Reverse(graph[n].children) \o Tail(task_queue)
           /\ IF a = 0 THEN
                /\ pc' = "err"
                /\ ret' = Returned("Err", "Task is not assigned", NoData)
                /\ UNCHANGED <<cur, start_offset>>
              ELSE IF w = 0 THEN
                /\ pc' = "err"
                /\ ret' = Returned("Err", "Worker not defined", NoData)
                /\ UNCHANGED <<cur, start_offset>>
              ELSE IF proj.team[w].base_calendar \notin DOMAIN calendars THEN
                /\ Panic
                /\ UNCHANGED <<cur, start_offset>>
              ELSE
                /\ pc' = "burn"
                /\ ret' = ret
                /\ start_offset' = [start_offset EXCEPT ![n] = Some(cumulative_days)]
                /\ cur' = [node |-> n,
                           assignment |-> proj.assignments[a],
                           worker |-> proj.team[w],
                           worker_cal |-> calendars[proj.team[w].base_calendar],
                           start_on |-> project_begin + AsU64(cumulative_days),
                           pause_days |-> <<>>,
                           hours_to_burn |-> RMul(task.estimate, FromInt(8)),
                           cumulative_days |-> cumulative_days,
                           d |-> project_begin + AsU64(cumulative_days)]
    /\ UNCHANGED <<first_run, proj, calendars, tasks, workers_absence, public_holidays,
                   resource_allocation, project_end, burn_log, deferred>>

\* the classification the zero-hour ledger entry of a pause day is tagged with
PauseTag(di) ==
    IF di.kind = "WorkerHolidays" THEN "Holidays"
    ELSE IF di.kind = "WorkerOtherDuties" THEN "OtherDuties"
    ELSE "PubHolidays"

LogEntry(worker, date, day, hours, node) ==
    [worker |-> worker, date |-> date, day |-> day, hours |-> hours, node |-> node]

\* the day the loop is at, and what get_working_day_len makes of it
CurDayInfo == get_day_info(cur.d, cur.worker_cal, cur.worker)
CurDayLen ==
    get_working_day_len(CurDayInfo, cur.d, cur.assignment.owner, workers_absence,
                        resource_allocation, cur.pause_days, public_holidays)
CurBudget ==
    DayBudget(cur.assignment, cur.worker, CurDayLen.h, cur.cumulative_days)

\* lines 353-374: the task ends at offset c; end_on, project_end, the emitted
\* task and the node's final offset.  `ceil() as u64 - 1` underflows at 0.
EndTask(c) ==
    IF RCeil(c) <= 0
    THEN /\ Panic
         /\ UNCHANGED <<graph, tasks, project_end, cur, cell_writes>>
    ELSE LET n == cur.node
             task == proj.tasks[graph[n].task_id]
             end_on == project_begin + (RCeil(c) - 1)
         IN  /\ project_end' = IF end_on > project_end THEN end_on ELSE project_end
             /\ tasks' = Append(tasks,
                    [id |-> task.id,
                     assignee |-> cur.assignment.owner,
                     after |-> task.after,
                     start_on |-> cur.start_on,
                     end_on |-> end_on,
                     pause_days |-> cur.pause_days,
                     duration_hours |-> AsU64(RMul(FromInt(24), task.estimate))])
             /\ graph' = [graph EXCEPT ![n].cumulative_days = Some(c)]
             /\ cell_writes' = [cell_writes EXCEPT ![n] =
                    Append(@, [site |-> "process",
                               parents_set |-> AllParentsSet(graph, n)])]
             /\ cur' = NoCur
             /\ pc' = "loop"
             /\ ret' = ret

\* lines 290-305: the day is not a working day of the worker
PauseDay ==
    /\ pc = "burn"
    /\ cur.d <= MaxDay
    /\ ~CurDayLen.ret
    /\ workers_absence' = CurDayLen.workers_absence
    /\ resource_allocation' = CurDayLen.resource_allocation
    /\ public_holidays' = CurDayLen.public_holidays
    /\ burn_log' = Append(burn_log,
            LogEntry(cur.assignment.owner, cur.d, PauseTag(CurDayInfo), Zero, cur.node))
    /\ cur' = [cur EXCEPT !.pause_days = CurDayLen.pause_days,
                          !.cumulative_days = RAdd(@, One),
                          !.d = @ + 1]
    /\ UNCHANGED <<first_run, proj, calendars, pc, graph, task_queue, tasks, project_end,
                   ret, cell_writes, start_offset, deferred>>

\* lines 306-337: the task takes all that is left of the day
WholeDay ==
    /\ pc = "burn"
    /\ cur.d <= MaxDay
    /\ CurDayLen.ret
    /\ RLe(CurBudget.effective_working_hrs, cur.hours_to_burn)
    /\ LET left == RSub(cur.hours_to_burn, CurBudget.effective_working_hrs)
           c == RAdd(cur.cumulative_days, CurBudget.cumulative_day_len)
           hours == RMul(NominalDay, CurBudget.cumulative_day_len)
       IN  /\ resource_allocation' =
                ResourceAllocationAdd(resource_allocation, cur.assignment.owner,
                                      cur.d, "Fine", hours)
           /\ burn_log' = Append(burn_log,
                LogEntry(cur.assignment.owner, cur.d, "Fine", hours, cur.node))
           /\ IF TaskEndsBy(left)
              THEN EndTask(c)
              ELSE /\ cur' = [cur EXCEPT !.hours_to_burn = left,
                                         !.cumulative_days = c,
                                         !.d = @ + 1]
                   /\ UNCHANGED <<pc, graph, tasks, project_end, ret, cell_writes>>
    /\ UNCHANGED <<first_run, proj, calendars, task_queue, workers_absence, public_holidays,
                   start_offset, deferred>>

\* lines 338-352: the task ends within the day
PartialDay ==
    /\ pc = "burn"
    /\ cur.d <= MaxDay
    /\ CurDayLen.ret
    /\ RLt(cur.hours_to_burn, CurBudget.effective_working_hrs)
    /\ IF CurBudget.effective_working_hrs = Zero
          \/ RLt(One, RDiv(cur.hours_to_burn, CurBudget.effective_working_hrs))
       THEN /\ Panic
            /\ UNCHANGED <<graph, tasks, project_end, cur, cell_writes,
                           resource_allocation, burn_log>>
       ELSE LET fraction == RDiv(cur.hours_to_burn, CurBudget.effective_working_hrs)
                c == RAdd(cur.cumulative_days,
                          RMul(CurBudget.cumulative_day_len, fraction))
                hours == RMul(RMul(NominalDay, fraction), CurBudget.cumulative_day_len)
            IN  /\ resource_allocation' =
                     ResourceAllocationAdd(resource_allocation, cur.assignment.owner,
                                           cur.d, "Underloaded", hours)
                /\ burn_log' = Append(burn_log,
                     LogEntry(cur.assignment.owner, cur.d, "Underloaded", hours, cur.node))
                /\ EndTask(c)
    /\ UNCHANGED <<first_run, proj, calendars, task_queue, workers_absence, public_holidays,
                   start_offset, deferred>>

\* lines 376-409: the worklist is empty; the ledger is finalized and the
\* result is returned.  closed_days comes from whichever calendar the
\* HashMap iterates first.
Finish ==
    /\ pc = "loop"
    /\ task_queue = <<>>
    /\ resource_allocation' =
            FinalizeLedger(resource_allocation, project_begin, project_end)
    /\ IF DOMAIN calendars = {}
       THEN Panic
       ELSE /\ pc' = "ok"
            /\ \E c \in DOMAIN calendars :
                 ret' = Returned("Ok", "",
                            GanttData(tasks, calendars[c].closed_days, workers_absence,
                                      public_holidays, resource_allocation'))
    /\ UNCHANGED <<first_run, proj, calendars, graph, task_queue, tasks, workers_absence,
                   public_holidays, project_end, cur, burn_log, cell_writes,
                   start_offset, deferred>>

Next ==
    \/ BuildGraph
    \/ SkipNode
    \/ DeferNode
    \/ StartTask
    \/ PauseDay
    \/ WholeDay
    \/ PartialDay
    \/ Finish

Spec == Init /\ [][Next]_vars

(* ----------------- the worklist taken in another order ----------------- *)
\* a second specification: the same steps, with the worklist reordered at
\* will between two iterations, run twice on one input
Reorderings(q) ==
    {[i \in 1..Len(q) |-> q[f[i]]] :
        f \in {g \in [1..Len(q) -> 1..Len(q)] : \A i, j \in 1..Len(q) : g[i] = g[j] => i = j}}

\* between two iterations the nodes of the worklist change places
Reorder ==
    /\ pc = "loop"
    /\ \E q \in Reorderings(task_queue) : q # task_queue /\ task_queue' = q
    /\ UNCHANGED <<first_run, proj, calendars, pc, graph, tasks, workers_absence,
                   public_holidays, resource_allocation, project_end, cur, ret,
                   burn_log, cell_writes, start_offset, deferred>>

\* what a run leaves of each task and of the ledger, the order of the emitted
\* tasks left aside
Schedule(t) ==
    {[id |-> t[k].id, start_on |-> t[k].start_on, end_on |-> t[k].end_on,
      pause_days |-> t[k].pause_days] : k \in 1..Len(t)}

\* process has returned; it is called again on the same input
SecondRun ==
    /\ pc = "ok"
    /\ ~first_run.some
    /\ first_run' = [some |-> TRUE, tasks |-> Schedule(ret.data.tasks),
                     ledger |-> ret.data.resource_allocation]
    /\ pc' = "build"
    /\ graph' = <<>>
    /\ task_queue' = <<>>
    /\ tasks' = <<>>
    /\ workers_absence' = EmptyMap
    /\ public_holidays' = <<>>
    /\ resource_allocation' = EmptyMap
    /\ project_end' = 0
    /\ cur' = NoCur
    /\ ret' = Returned("None", "", NoData)
    /\ burn_log' = <<>>
    /\ cell_writes' = <<>>
    /\ start_offset' = <<>>
    /\ deferred' = {}
    /\ UNCHANGED <<proj, calendars>>

\* three tasks of two workers: the second and third depend on earlier ones or
\* not, estimates of whole days and of a few seconds, start on Monday or Friday
OrderInputs ==
    \E a2 \in {<<>>, <<1>>}, a3 \in {<<>>, <<1>>, <<1, 2>>},
       e1 \in {Q(19999, 20000), Q(3, 2)}, e2 \in {Q(1, 20000), One},
       e3 \in {Q(1, 16000), Q(1, 2)}, start \in {0, 4} :
        GivenInput(Input(ProjectConfig(start, <<W1, W2>>,
                <<Task(1, e1, <<>>), Task(2, e2, a2), Task(3, e3, a3)>>,
                <<Assignment(1, "w2", Some(One)), Assignment(2, "w1", None),
                  Assignment(3, "w1", None)>>),
              BothCalendars))

OrderInit ==
    /\ OrderInputs
    /\ Entry
    /\ first_run = NoRun

OrderNext ==
    \/ BuildGraph
    \/ SkipNode
    \/ DeferNode
    \/ StartTask
    \/ PauseDay
    \/ WholeDay
    \/ PartialDay
    \/ Finish
    \/ Reorder
    \/ SecondRun

OrderSpec == OrderInit /\ [][OrderNext]_vars

(* ------------------- the same input with a holiday --------------------- *)
\* a third specification: process is run on a project whose calendars have no
\* public holiday, then again with one public holiday in one calendar
HolidayChoices == {DateOf(0), DateOf(1), DateOf(2), RangeOf(1, 1), RangeOf(2, 2)}

WithHoliday ==
    /\ pc = "ok"
    /\ ~first_run.some
    /\ first_run' = [some |-> TRUE, tasks |-> Schedule(ret.data.tasks),
                     ledger |-> ret.data.resource_allocation]
    /\ \E c \in DOMAIN calendars : \E hd \in HolidayChoices :
            calendars' = [calendars EXCEPT ![c].public_holidays = <<hd>>]
    /\ pc' = "build"
    /\ graph' = <<>>
    /\ task_queue' = <<>>
    /\ tasks' = <<>>
    /\ workers_absence' = EmptyMap
    /\ public_holidays' = <<>>
    /\ resource_allocation' = EmptyMap
    /\ project_end' = 0
    /\ cur' = NoCur
    /\ ret' = Returned("None", "", NoData)
    /\ burn_log' = <<>>
    /\ cell_writes' = <<>>
    /\ start_offset' = <<>>
    /\ deferred' = {}
    /\ UNCHANGED proj

\* up to three tasks of two workers, the third depending on both others
HolidayInputs ==
    \E e1 \in {One, Q(3, 2)}, e2 \in {Q(1, 2), FromInt(2)}, a2 \in {<<>>, <<1>>},
       t3 \in {<<>>, <<Task(3, One, <<1, 2>>)>>}, o2 \in {"w1", "w2"} :
        GivenInput(Input(ProjectConfig(0, <<W1, W2>>,
                <<Task(1, e1, <<>>), Task(2, e2, a2)>> \o t3,
                <<Assignment(1, "w1", None), Assignment(2, o2, None),
                  Assignment(3, "w1", None)>>),
              BothCalendars))

HolidayInit ==
    /\ HolidayInputs
    /\ Entry
    /\ first_run = NoRun

HolidayNext ==
    \/ BuildGraph
    \/ SkipNode
    \/ DeferNode
    \/ StartTask
    \/ PauseDay
    \/ WholeDay
    \/ PartialDay
    \/ Finish
    \/ WithHoliday

HolidaySpec == HolidayInit /\ [][HolidayNext]_vars

(* ------------------------ notions of the claims ------------------------ *)
Nodes == DOMAIN graph
Workers == DOMAIN resource_allocation
Range(s) == {s[i] : i \in DOMAIN s}

\* the tasks a task lists as dependencies
DepsOf(i) == {j \in 1..Len(proj.tasks) : proj.tasks[j].id \in Range(proj.tasks[i].after)}
RECURSIVE DepsWithin(_, _)
DepsWithin(S, k) ==
    IF k = 0 THEN S ELSE DepsWithin(S \cup UNION {DepsOf(j) : j \in S}, k - 1)
\* everything task i depends on, directly or not
AncestorsOf(i) == DepsWithin(DepsOf(i), Len(proj.tasks))
Acyclic ==
    /\ ~UnknownDependency(proj.tasks)
    /\ \A i \in 1..Len(proj.tasks) : i \notin AncestorsOf(i)

\* node n has been burnt down to its end: its cell holds the final offset
Finished(n) == n \in Nodes /\ Len(cell_writes[n]) = 2
FinalOffset(n) == graph[n].cumulative_days.v

\* the greatest of a set of offsets, 0 for the empty set
Greatest(S) == IF S = {} THEN Zero ELSE CHOOSE x \in S : \A y \in S : RLe(y, x)
FloorDays(x) == CHOOSE k \in 0..(MaxDay + 2) : RLe(FromInt(k), x) /\ RLt(x, FromInt(k + 1))

\* the start_on of node n: of the task being burnt down, or of the emitted task
StartOn(n) ==
    IF cur.node = n THEN cur.start_on
    ELSE LET i == CHOOSE k \in 1..Len(tasks) : tasks[k].id = proj.tasks[n].id
         IN  tasks[i].start_on

\* C1: the start offset of a started task is the greatest final offset of its
\* dependencies, all of them finished (0 without dependencies), and its
\* start_on is project start + floor(start offset) days.
C1_StartOffset ==
    \A n \in DOMAIN start_offset :
        start_offset[n].some =>
            /\ \A p \in DepsOf(n) : Finished(p)
            /\ start_offset[n].v = Greatest({FinalOffset(p) : p \in DepsOf(n)})
            /\ StartOn(n) = project_begin + FloorDays(start_offset[n].v)

\* a finished run in which a task with two dependencies of different final
\* offsets started from the later one, and a task whose only dependency
\* ended at offset 1 starts on the day after project start
C1_Witness ==
    /\ pc = "ok"
    /\ Acyclic
    /\ \E n \in Nodes : \E p, q \in DepsOf(n) :
        /\ RLt(FinalOffset(p), FinalOffset(q))
        /\ start_offset[n] = Some(FinalOffset(q))
    /\ \E n \in Nodes : \E p \in Nodes :
        /\ DepsOf(n) = {p}
        /\ FinalOffset(p) = One
        /\ start_offset[n] = Some(One)
        /\ StartOn(n) = project_begin + 1

\* the focus factor process uses for task i, when the task is assigned
AssignmentOf(i) ==
    FindAssignment(proj.assignments, proj.tasks[i].id)
WorkerOf(i) ==
    FindWorker(proj.team, proj.assignments[AssignmentOf(i)].owner)
FocusOf(i) ==
    IF proj.assignments[AssignmentOf(i)].focus_factor.some
    THEN proj.assignments[AssignmentOf(i)].focus_factor.v
    ELSE proj.team[WorkerOf(i)].focus_factor
\* from every day on, the worker has a working day within a week
WorkingDayRecurs(w) ==
    /\ w.base_calendar \in DOMAIN calendars
    /\ \A d \in project_begin..MaxDay : \E e \in d..(d + 6) :
            get_day_info(e, calendars[w.base_calendar], w).kind = "WorkingDay"
\* the precondition of C2: acyclic, every task assigned to a known worker with
\* a positive focus factor and a calendar whose working days recur
ValidInput ==
    /\ Acyclic
    /\ \A i \in 1..Len(proj.tasks) :
        /\ AssignmentOf(i) # 0
        /\ WorkerOf(i) # 0
        /\ RLt(Zero, FocusOf(i))
        /\ WorkingDayRecurs(proj.team[WorkerOf(i)])

\* a node of the worklist that the next iterations can take off it for good
Ready(n) == graph[n].cumulative_days.some \/ calc_start_time(graph, n).ok
\* the loop is not stuck: some node of the worklist can be processed, and
\* the burn-down has not run past the days the model follows
CanProgress ==
    /\ pc = "loop" /\ task_queue # <<>> => \E k \in 1..Len(task_queue) : Ready(task_queue[k])
    /\ pc = "burn" => cur.d <= MaxDay

\* C2: on a valid acyclic input the worklist loop runs until the worklist is
\* empty: process does not stop before (no error return, no panic), the loop
\* can always take a node off the worklist, and when the worklist is empty
\* every deferred node has been processed to its end.
C2_Terminates ==
    ValidInput =>
        /\ pc \notin {"err", "panic"}
        /\ CanProgress
        /\ pc = "ok" => task_queue = <<>> /\ \A n \in deferred : Finished(n)

\* the same holds when every estimate is positive: the retry of deferred
\* nodes itself always comes to an end
PositiveEstimates == \A i \in 1..Len(proj.tasks) : RLt(Zero, proj.tasks[i].estimate)
C2_TerminatesPositive ==
    (ValidInput /\ PositiveEstimates) =>
        /\ pc \notin {"err", "panic"}
        /\ CanProgress
        /\ pc = "ok" => task_queue = <<>> /\ \A n \in deferred : Finished(n)

\* C3 as claimed: a node's cell is written at most once, and only when every
\* parent's cell is set.
C3_WrittenOnce ==
    \A n \in Nodes :
        /\ Len(cell_writes[n]) <= 1
        /\ \A k \in 1..Len(cell_writes[n]) : cell_writes[n][k].parents_set

\* C3 amended: a node's cell is written at most twice, first by
\* calc_start_time (unset to the start offset, every parent's cell set), then
\* once by process at the end of the same worklist iteration (the final
\* offset), and never again; the cell is unset exactly while nothing was
\* written.
C3_WrittenTwice ==
    \A n \in Nodes :
        /\ Len(cell_writes[n]) <= 2
        /\ \A k \in 1..Len(cell_writes[n]) : cell_writes[n][k].parents_set
        /\ Len(cell_writes[n]) >= 1 => cell_writes[n][1].site = "calc_start_time"
        /\ Len(cell_writes[n]) = 2 => cell_writes[n][2].site = "process"
        /\ Len(cell_writes[n]) = 1 => (pc \in {"burn", "err", "panic"})
        /\ graph[n].cumulative_days.some <=> Len(cell_writes[n]) >= 1

\* a node with two parents whose cell was written twice, to different values
C3_Witness ==
    \E n \in Nodes :
        /\ Len(cell_writes[n]) = 2
        /\ Cardinality(Range(graph[n].parents)) = 2
        /\ graph[n].cumulative_days.v # start_offset[n].v

\* the hours the burn-down steps attributed to worker w on date d
RECURSIVE LoggedHours(_, _, _)
LoggedHours(log, w, d) ==
    IF log = <<>> THEN Zero
    ELSE RAdd(IF Head(log).worker = w /\ Head(log).date = d THEN Head(log).hours ELSE Zero,
              LoggedHours(Tail(log), w, d))
LoggedOn(w, d) == {k \in 1..Len(burn_log) : burn_log[k].worker = w /\ burn_log[k].date = d}
LoggedWorkers == {burn_log[k].worker : k \in 1..Len(burn_log)}
Dates == 0..(MaxDay + 2)

\* C4: at every point, for every worker and date the ledger's hours are the
\* sum of the hours the burn-down steps attributed to that worker on that
\* date, and a worker/date with an attribution has an entry.
C4_LedgerIsSum ==
    /\ LoggedWorkers \subseteq Workers
    /\ \A w \in Workers :
        /\ DOMAIN resource_allocation[w] \subseteq Dates
        /\ \A d \in Dates :
            /\ LoggedOn(w, d) # {} => d \in DOMAIN resource_allocation[w]
            /\ d \in DOMAIN resource_allocation[w] =>
                resource_allocation[w][d].hours = LoggedHours(burn_log, w, d)

\* a worker's day booked by two tasks, both with hours
C4_Witness ==
    \E w \in Workers : \E d \in DOMAIN resource_allocation[w] :
        \E j, k \in LoggedOn(w, d) :
            /\ burn_log[j].node # burn_log[k].node
            /\ RLt(Zero, burn_log[j].hours)
            /\ RLt(Zero, burn_log[k].hours)
            /\ resource_allocation[w][d].hours = RAdd(burn_log[j].hours, burn_log[k].hours)

(* the result handed to the caller *)
Ledger == ret.data.resource_allocation
\* project end: the latest end_on of the emitted tasks
LatestEnd ==
    IF ret.data.tasks = <<>> THEN project_begin
    ELSE CHOOSE e \in {ret.data.tasks[k].end_on : k \in 1..Len(ret.data.tasks)} :
            \A k \in 1..Len(ret.data.tasks) : ret.data.tasks[k].end_on <= e
AbsenceTags == {"PubHolidays", "Holidays", "OtherDuties"}
\* the tag of the last booking of worker w on date d
LastTag(w, d) ==
    IF LoggedOn(w, d) = {} THEN "Unassigned"
    ELSE burn_log[CHOOSE k \in LoggedOn(w, d) : \A j \in LoggedOn(w, d) : j <= k].day

\* C5: in the returned result every worker of the ledger has an entry for
\* every day from project start to the latest end_on, and the days no task
\* touched hold (0 hours, Unassigned).
C5_NoGaps ==
    pc = "ok" =>
        /\ DOMAIN Ledger = LoggedWorkers
        /\ \A w \in DOMAIN Ledger : \A d \in project_begin..LatestEnd :
            /\ d \in DOMAIN Ledger[w]
            /\ LoggedOn(w, d) = {} => Ledger[w][d] = [hours |-> Zero, day |-> "Unassigned"]

\* a result with two workers in which a day inside the project span was
\* filled in for a worker no task had booked on it
C5_Witness ==
    /\ pc = "ok"
    /\ Cardinality(DOMAIN Ledger) = 2
    /\ \E w \in DOMAIN Ledger : \E d \in project_begin..LatestEnd :
        /\ LoggedOn(w, d) = {}
        /\ Ledger[w][d].day = "Unassigned"
        /\ \E e \in DOMAIN Ledger[w] : e > d /\ LoggedOn(w, e) # {}

\* C6 as claimed: Underloaded for 0 < h < 8-eps, Fine for 8-eps <= h <= 8+eps,
\* Overloaded for h > 8+eps, for every entry that is not an absence entry.
C6_ClaimedThresholds ==
    pc = "ok" =>
        \A w \in DOMAIN Ledger : \A d \in DOMAIN Ledger[w] :
            LET e == Ledger[w][d]
            IN  e.day \notin AbsenceTags =>
                /\ RLt(Zero, e.hours) /\ RLt(e.hours, UnderloadedTo) => e.day = "Underloaded"
                /\ RLe(UnderloadedTo, e.hours) /\ RLe(e.hours, OverloadedFrom) => e.day = "Fine"
                /\ RLt(OverloadedFrom, e.hours) => e.day = "Overloaded"

\* C6 amended: for every entry dated from project start to project end that is
\* not an absence entry: Overloaded for h >= 8+eps, Underloaded for
\* eps <= h <= 8-eps, Fine for 8-eps < h < 8+eps, and for h < eps the entry
\* keeps the tag of its last booking (Unassigned when it was filled in).
C6_CodeThresholds ==
    pc = "ok" =>
        \A w \in DOMAIN Ledger : \A d \in DOMAIN Ledger[w] \cap (project_begin..LatestEnd) :
            LET e == Ledger[w][d]
            IN  e.day \notin AbsenceTags =>
                /\ RLe(OverloadedFrom, e.hours) => e.day = "Overloaded"
                /\ RLe(UnderloadedFrom, e.hours) /\ RLe(e.hours, UnderloadedTo)
                        => e.day = "Underloaded"
                /\ RLt(UnderloadedTo, e.hours) /\ RLt(e.hours, OverloadedFrom) => e.day = "Fine"
                /\ RLt(e.hours, UnderloadedFrom) => e.day = LastTag(w, d)

\* a result in which one worker has an entry of exactly 8-eps hours tagged
\* Underloaded and an entry of exactly 8 hours tagged Fine
C6_Witness ==
    /\ pc = "ok"
    /\ \E w \in DOMAIN Ledger : \E d \in DOMAIN Ledger[w] \cap (project_begin..LatestEnd) :
        /\ Ledger[w][d] = [hours |-> UnderloadedTo, day |-> "Underloaded"]
        /\ \E c \in DOMAIN Ledger[w] \cap (project_begin..LatestEnd) :
            Ledger[w][c] = [hours |-> NominalDay, day |-> "Fine"]

\* the hours task n booked for worker w on date d
RECURSIVE TaskHours(_, _, _, _)
TaskHours(log, n, w, d) ==
    IF log = <<>> THEN Zero
    ELSE RAdd(IF Head(log).node = n /\ Head(log).worker = w /\ Head(log).date = d
              THEN Head(log).hours ELSE Zero,
              TaskHours(Tail(log), n, w, d))
Independent(m, n) == m # n /\ m \notin AncestorsOf(n) /\ n \notin AncestorsOf(m)
\* two independent tasks both booked hours for w on d
DoubleBooked(m, n, w, d) ==
    /\ m # n
    /\ RLt(Zero, TaskHours(burn_log, m, w, d))
    /\ RLt(Zero, TaskHours(burn_log, n, w, d))
    /\ Independent(m, n)
BookedBy(m, n, w, d) == RAdd(TaskHours(burn_log, m, w, d), TaskHours(burn_log, n, w, d))

\* C7 as claimed: when two independent tasks of one worker book hours on the
\* same date and the sum exceeds 8, the entry is Overloaded in the result.
C7_OverEight ==
    pc = "ok" =>
        \A w \in DOMAIN Ledger : \A d \in DOMAIN Ledger[w] : \A m, n \in Nodes :
            DoubleBooked(m, n, w, d) /\ RLt(NominalDay, BookedBy(m, n, w, d))
                => Ledger[w][d].day = "Overloaded"

\* C7 amended: ... and the sum is at least 8+eps = 8.001, the entry is
\* Overloaded in the result, whichever of the two tasks was processed last.
C7_OverThreshold ==
    pc = "ok" =>
        \A w \in DOMAIN Ledger : \A d \in DOMAIN Ledger[w] : \A m, n \in Nodes :
            DoubleBooked(m, n, w, d) /\ RLe(OverloadedFrom, BookedBy(m, n, w, d))
                => Ledger[w][d].day = "Overloaded"

\* two independent tasks booked exactly 8.001 hours on one day, the last
\* booking tagged Underloaded, and the entry is Overloaded
C7_Witness ==
    /\ pc = "ok"
    /\ \E w \in DOMAIN Ledger : \E d \in DOMAIN Ledger[w] : \E m, n \in Nodes :
        /\ DoubleBooked(m, n, w, d)
        /\ BookedBy(m, n, w, d) = OverloadedFrom
        /\ LastTag(w, d) = "Underloaded"
        /\ Ledger[w][d].day = "Overloaded"

\* a date listed in a vector of dates and ranges, range bounds inclusive
Listed(d, dates) ==
    \E i \in 1..Len(dates) :
        IF dates[i].kind = "Date" THEN dates[i].f = d
        ELSE dates[i].f <= d /\ d <= dates[i].t
\* the precedence of the day classification as claimed
ClaimedDayInfo(d, cal, worker) ==
    IF Weekday(d) \in cal.closed_days THEN NonWorking
    ELSE IF Listed(d, cal.public_holidays) THEN NonWorkingPubHoliday
    ELSE IF Listed(d, worker.holidays) THEN WorkerHolidays
    ELSE IF Listed(d, worker.other_duties) THEN WorkerOtherDuties
    ELSE WorkingDay(cal.working_hrs_in_day)

\* C8: every day the burn-down classifies gets the class of the fixed
\* precedence: non-working weekday, then public holiday, then worker holiday,
\* then worker other duty, else working with the calendar's hours.
C8_Precedence ==
    pc = "burn" /\ cur.d <= MaxDay =>
        get_day_info(cur.d, cur.worker_cal, cur.worker)
            = ClaimedDayInfo(cur.d, cur.worker_cal, cur.worker)

\* C9: a day that is not a non-working weekday is a public holiday exactly
\* when it is one of the calendar's single dates or lies inside one of its
\* ranges, bounds inclusive, and is a working day otherwise.
C9_PublicHoliday ==
    pc = "burn" /\ cur.d <= MaxDay /\ Weekday(cur.d) \notin cur.worker_cal.closed_days =>
        /\ day_info(cur.worker_cal, cur.d) = NonWorkingPubHoliday
                <=> Listed(cur.d, cur.worker_cal.public_holidays)
        /\ ~Listed(cur.d, cur.worker_cal.public_holidays)
                => day_info(cur.worker_cal, cur.d).kind = "WorkingDay"

\* some task lists a dependency id that no task has
DanglingDependency ==
    \E i \in 1..Len(proj.tasks) : \E a \in Range(proj.tasks[i].after) :
        \A j \in 1..Len(proj.tasks) : proj.tasks[j].id # a

\* C10: with a dependency id that matches no task, building the graph ends
\* in an error value returned to the caller.
C10_UnknownDependencyIsError ==
    DanglingDependency /\ pc # "build" => pc = "err" /\ ret.kind = "Err"

\* no assignment record names task n
NotAssigned(n) ==
    \A k \in 1..Len(proj.assignments) : proj.assignments[k].task # proj.tasks[n].id
\* the first assignment record of task n names a worker the team does not have
NamesUnknownWorker(n) ==
    \E k \in 1..Len(proj.assignments) :
        /\ proj.assignments[k].task = proj.tasks[n].id
        /\ \A j \in 1..(k - 1) : proj.assignments[j].task # proj.tasks[n].id
        /\ \A u \in 1..Len(proj.team) : proj.team[u].name # proj.assignments[k].owner
\* the traversal has reached node n: calc_start_time has set its cell
Reached(n) == n \in Nodes /\ Len(cell_writes[n]) >= 1

\* C11: once the traversal has reached a task without an assignment record,
\* or one whose assignment names a worker the team does not have, process
\* has returned the matching error and no result: nothing of what was
\* computed before is handed to the caller.
C11_FatalError ==
    \A n \in Nodes :
        /\ Reached(n) /\ NotAssigned(n) =>
                pc = "err" /\ ret = Returned("Err", "Task is not assigned", NoData)
        /\ Reached(n) /\ NamesUnknownWorker(n) =>
                pc = "err" /\ ret = Returned("Err", "Worker not defined", NoData)

\* a run that emitted a task and booked its hours, then reached a task
\* without an assignment record and returned the error with no result
C11_Witness ==
    /\ pc = "err"
    /\ \E n \in Nodes : Reached(n) /\ NotAssigned(n)
    /\ tasks # <<>>
    /\ resource_allocation # EmptyMap
    /\ ret.data = NoData

\* the same for an assignment that names a worker the team does not have
C11_WitnessUnknownWorker ==
    /\ pc = "err"
    /\ \E n \in Nodes : Reached(n) /\ NamesUnknownWorker(n)
    /\ tasks # <<>>
    /\ resource_allocation # EmptyMap
    /\ ret.data = NoData

\* the first assignment record of task n names a worker of the team whose
\* base calendar is not in the calendar map
NamesUnknownCalendar(n) ==
    /\ ~NotAssigned(n)
    /\ ~NamesUnknownWorker(n)
    /\ proj.team[FindWorker(proj.team,
            proj.assignments[FindAssignment(proj.assignments, proj.tasks[n].id)].owner)]
            .base_calendar \notin DOMAIN calendars

\* C12: once the traversal has reached a task whose worker references a
\* calendar that is not in the calendar map, process has returned an error
\* value and no result.
C12_UnknownCalendarIsError ==
    \A n \in Nodes :
        Reached(n) /\ NamesUnknownCalendar(n) =>
            pc = "err" /\ ret.kind = "Err" /\ ret.data = NoData

\* C13: the result is determined by the input: whichever calendar the map
\* yields first, the returned value is the same in every field.
C13_Deterministic ==
    pc = "ok" =>
        \A c \in DOMAIN calendars :
            ret.data = GanttData(tasks, calendars[c].closed_days, workers_absence,
                                 public_holidays, resource_allocation)

\* C14: on an acyclic task graph a second run that takes the nodes from the
\* worklist in another order gives every task the same start_on, end_on and
\* pause days, and every ledger entry the same hours and classification.
C14_OrderIndependent ==
    pc = "ok" /\ first_run.some /\ Acyclic =>
        /\ Schedule(ret.data.tasks) = first_run.tasks
        /\ ret.data.resource_allocation = first_run.ledger

\* what does not depend on the order: the schedule of every task, the hours
\* of every ledger entry, and the classification of every entry of at least
\* eps hours
C14_OrderIndependentHours ==
    pc = "ok" /\ first_run.some /\ Acyclic =>
        /\ Schedule(ret.data.tasks) = first_run.tasks
        /\ DOMAIN Ledger = DOMAIN first_run.ledger
        /\ \A w \in DOMAIN Ledger :
            /\ DOMAIN Ledger[w] = DOMAIN first_run.ledger[w]
            /\ \A d \in DOMAIN Ledger[w] :
                /\ Ledger[w][d].hours = first_run.ledger[w][d].hours
                /\ RLe(UnderloadedFrom, Ledger[w][d].hours) =>
                        Ledger[w][d].day = first_run.ledger[w][d].day

\* the tasks on a dependency cycle, and the tasks that can never be resolved:
\* those on a cycle and those that depend on one
CycleNodes == {i \in 1..Len(proj.tasks) : i \in AncestorsOf(i)}
HasCycle == ~UnknownDependency(proj.tasks) /\ CycleNodes # {}
Unresolvable ==
    LET cyc == CycleNodes
    IN  {i \in 1..Len(proj.tasks) : i \in cyc \/ AncestorsOf(i) \cap cyc # {}}
\* some task that can never be resolved also depends on a task that can: the
\* traversal reaches it as a child of that task
CycleReachable ==
    HasCycle /\ LET unres == Unresolvable
                IN  \E i \in unres : DepsOf(i) \ unres # {}
EmittedIds == {tasks[k].id : k \in 1..Len(tasks)}

\* C15 as claimed: with a cycle among the dependencies process never returns.
C15_NeverTerminates == HasCycle => pc # "ok"

\* C15 amended: with a cycle that the traversal reaches (a task that cannot
\* be resolved depends on one that can) the worklist never becomes empty and
\* process never returns a result; with a cycle that it does not reach (a
\* task depending on itself, tasks depending on each other, and only tasks
\* depending on those) the loop can always take a node off the worklist, and
\* the result process returns holds exactly the tasks that can be resolved.
C15_CycleOutcome ==
    HasCycle =>
        LET unres == Unresolvable
            reachable == CycleReachable
        IN  /\ reachable =>
                /\ pc # "ok"
                /\ pc = "loop" => task_queue # <<>>
            /\ ~reachable =>
                /\ Range(task_queue) \cap unres = {}
                /\ pc = "loop" /\ task_queue # <<>> =>
                        \E k \in 1..Len(task_queue) : Ready(task_queue[k])
                /\ pc = "ok" =>
                        EmittedIds = {proj.tasks[i].id : i \in (1..Len(proj.tasks)) \ unres}

\* the loop is stuck: every task that can be resolved is emitted, and the
\* worklist holds only deferred nodes that can never be resolved
C15_Witness ==
    /\ CycleReachable
    /\ pc = "loop"
    /\ task_queue # <<>>
    /\ Range(task_queue) \subseteq (Unresolvable \cap deferred)
    /\ \A k \in 1..Len(task_queue) : ~Ready(task_queue[k])
    /\ EmittedIds = {proj.tasks[i].id : i \in (1..Len(proj.tasks)) \ Unresolvable}

\* process has returned a result although a task depends on itself, and the
\* result lacks that task
C15_WitnessReturns ==
    /\ pc = "ok"
    /\ \E i \in 1..Len(proj.tasks) : i \in DepsOf(i) /\ proj.tasks[i].id \notin EmittedIds
    /\ tasks # <<>>

\* the emitted task of node n
Emitted(n) == tasks[CHOOSE k \in 1..Len(tasks) : tasks[k].id = proj.tasks[n].id]
\* the estimate of task n is a whole number of days, at least 1
WholeDays(n) == proj.tasks[n].estimate.d = 1 /\ proj.tasks[n].estimate.n >= 1
\* the days project start .. project start + estimate - 1
Window(n) == project_begin..(project_begin + proj.tasks[n].estimate.n - 1)
\* every day of the window is a working day of 8 hours for the worker of n
EightHourWindow(n) ==
    LET w == proj.team[WorkerOf(n)]
    IN  /\ w.base_calendar \in DOMAIN calendars
        /\ \A d \in Window(n) :
                get_day_info(d, calendars[w.base_calendar], w) = WorkingDay(8)
\* task n is the only one that booked hours for worker w on day d
OnlyBooking(n, w, d) == \A k \in LoggedOn(w, d) : burn_log[k].node = n

\* C16 as claimed: a dependency-free task of n whole days whose worker has
\* focus factor 1.0 and 8-hour working days throughout the window starts on
\* project start, ends n - 1 days later, and the worker's finalized ledger
\* entry on each of the n days is (8.0, Fine).
C16_WholeDays ==
    pc = "ok" =>
        \A n \in Nodes :
            (/\ DepsOf(n) = {}
             /\ WholeDays(n)
             /\ proj.team[WorkerOf(n)].focus_factor = One
             /\ EightHourWindow(n))
            => /\ Emitted(n).start_on = project_begin
               /\ Emitted(n).end_on = project_begin + proj.tasks[n].estimate.n - 1
               /\ \A d \in Window(n) :
                    Ledger[proj.team[WorkerOf(n)].name][d] = [hours |-> NominalDay, day |-> "Fine"]

\* C16 amended: with the focus factor in effect for the task (the override of
\* the assignment, else the worker's) equal to 1.0, the task starts on project
\* start, ends n - 1 days later and books exactly 8.0 hours on each of the n
\* days; the finalized entry holds the sum of all bookings of the day, and it
\* is (8.0, Fine) on the days no other task booked for the worker.
C16_WholeDaysAlone ==
    pc = "ok" =>
        \A n \in Nodes :
            (/\ DepsOf(n) = {}
             /\ WholeDays(n)
             /\ FocusOf(n) = One
             /\ EightHourWindow(n))
            => LET w == proj.team[WorkerOf(n)].name
               IN  /\ Emitted(n).start_on = project_begin
                   /\ Emitted(n).end_on = project_begin + proj.tasks[n].estimate.n - 1
                   /\ Emitted(n).pause_days = <<>>
                   /\ \A d \in Window(n) :
                        /\ TaskHours(burn_log, n, w, d) = NominalDay
                        /\ Ledger[w][d].hours = LoggedHours(burn_log, w, d)
                        /\ OnlyBooking(n, w, d) =>
                                Ledger[w][d] = [hours |-> NominalDay, day |-> "Fine"]

\* a dependency-free task of 2 days, alone on its worker's days, ended on the
\* day after project start with (8.0, Fine) on both days
C16_Witness ==
    /\ pc = "ok"
    /\ \E n \in Nodes :
        /\ DepsOf(n) = {}
        /\ proj.tasks[n].estimate = FromInt(2)
        /\ FocusOf(n) = One
        /\ EightHourWindow(n)
        /\ Emitted(n).end_on = project_begin + 1
        /\ \A d \in Window(n) :
            /\ OnlyBooking(n, proj.team[WorkerOf(n)].name, d)
            /\ Ledger[proj.team[WorkerOf(n)].name][d] = [hours |-> NominalDay, day |-> "Fine"]

\* the calendar that was given a public holiday for the second run, the
\* holiday, and what the run without it left of task n
HolidayCal == CHOOSE c \in DOMAIN calendars : calendars[c].public_holidays # <<>>
TheHoliday == calendars[HolidayCal].public_holidays[1]
Without(n) == CHOOSE t \in first_run.tasks : t.id = proj.tasks[n].id
\* node n is being burnt down or is emitted
Started(n) == cur.node = n \/ proj.tasks[n].id \in EmittedIds
\* the burn-down of task n visits the holiday before the task has ended, and
\* every other day up to the day after its end without the holiday is a
\* working day of its worker
VisitsHoliday(n) ==
    LET w == proj.team[WorkerOf(n)]
        h == TheHoliday.f
    IN  /\ w.base_calendar = HolidayCal
        /\ StartOn(n) <= h /\ h <= Without(n).end_on
        /\ \A d \in StartOn(n)..(Without(n).end_on + 1) :
                ClaimedDayInfo(d, calendars[HolidayCal], w).kind =
                    IF d = h THEN "NonWorkingPubHoliday" ELSE "WorkingDay"
\* what C17 says of task n
HolidayOutcome(n) ==
    LET w == proj.team[WorkerOf(n)].name
        h == TheHoliday.f
    IN  /\ pc = "burn" /\ cur.node = n => cur.d <= Without(n).end_on + 1
        /\ proj.tasks[n].id \in EmittedIds =>
                /\ Emitted(n).end_on = Without(n).end_on + 1
                /\ h \in Range(Emitted(n).pause_days)
                /\ h \in Range(public_holidays)
                /\ resource_allocation[w][h].hours = Zero

\* C17: a task whose burn-down visits a public holiday of its worker's
\* calendar has the date among its pause days and in the public-holiday list,
\* 0 hours in the ledger on it, and ends exactly one day later than in the
\* run without the holiday.
C17_HolidayShiftsEnd ==
    first_run.some =>
        \A n \in Nodes : Started(n) /\ VisitsHoliday(n) => HolidayOutcome(n)

\* the same for a holiday that the calendar lists as a single date
C17_DateHolidayShiftsEnd ==
    first_run.some =>
        \A n \in Nodes :
            Started(n) /\ VisitsHoliday(n) /\ TheHoliday.kind = "Date" => HolidayOutcome(n)

\* a task of two days emitted in the second run, paused on the holiday in the
\* middle of it
C17_DateHolidayWitness ==
    /\ first_run.some
    /\ \E n \in Nodes :
        /\ proj.tasks[n].id \in EmittedIds
        /\ VisitsHoliday(n)
        /\ TheHoliday = DateOf(1)
        /\ Emitted(n).start_on = 0
        /\ Emitted(n).end_on = 2
        /\ Emitted(n).pause_days = <<1>>

\* the burn-down is at a day it classifies as anything but a working day
AtPauseDay == pc = "burn" /\ cur.d <= MaxDay /\ CurDayInfo.kind # "WorkingDay"
\* pause day, zero-hour ledger entry (the hours the ledger already holds for
\* the worker on the day stay), offset + 1, remaining hours unchanged
PauseStep(tag) ==
    /\ cur'.pause_days = Append(cur.pause_days, cur.d)
    /\ LET w == cur.assignment.owner
           so_far == IF w \in DOMAIN resource_allocation
                        /\ cur.d \in DOMAIN resource_allocation[w]
                     THEN resource_allocation[w][cur.d].hours ELSE Zero
       IN  resource_allocation'[w][cur.d] = [hours |-> so_far, day |-> tag]
    /\ cur'.cumulative_days = RAdd(cur.cumulative_days, One)
    /\ cur'.hours_to_burn = cur.hours_to_burn
    /\ cur'.node = cur.node

\* C18 as claimed: every day classified as anything but a working day becomes
\* a pause day and an entry of the worker's absence list, with a zero-hour
\* ledger entry (tagged PubHolidays, Holidays or OtherDuties for a public
\* holiday, a worker holiday or another duty), the offset advanced by 1 and
\* the remaining hours unchanged.
C18_PauseIsAbsence ==
    [][AtPauseDay =>
        /\ PauseStep(resource_allocation'[cur.assignment.owner][cur.d].day)
        /\ workers_absence' = AbsencePush(workers_absence, cur.assignment.owner, cur.d)
        /\ CurDayInfo.kind = "NonWorkingPubHoliday" =>
                resource_allocation'[cur.assignment.owner][cur.d].day = "PubHolidays"
        /\ CurDayInfo.kind = "WorkerHolidays" =>
                resource_allocation'[cur.assignment.owner][cur.d].day = "Holidays"
        /\ CurDayInfo.kind = "WorkerOtherDuties" =>
                resource_allocation'[cur.assignment.owner][cur.d].day = "OtherDuties"]_vars

\* C18 amended: a public holiday, a worker holiday and a worker other duty
\* become a pause day and an entry of the worker's absence list, with a
\* zero-hour ledger entry tagged PubHolidays, Holidays, OtherDuties; a
\* non-working weekday becomes a pause day with a zero-hour ledger entry
\* tagged PubHolidays and no entry in the absence list; in all four cases
\* the offset advances by exactly 1 and the remaining hours are unchanged.
C18_PauseStep ==
    [][AtPauseDay =>
        /\ CurDayInfo.kind = "NonWorking" =>
                /\ PauseStep("PubHolidays")
                /\ workers_absence' = workers_absence
        /\ CurDayInfo.kind = "NonWorkingPubHoliday" =>
                /\ PauseStep("PubHolidays")
                /\ workers_absence' = AbsencePush(workers_absence, cur.assignment.owner, cur.d)
        /\ CurDayInfo.kind = "WorkerHolidays" =>
                /\ PauseStep("Holidays")
                /\ workers_absence' = AbsencePush(workers_absence, cur.assignment.owner, cur.d)
        /\ CurDayInfo.kind = "WorkerOtherDuties" =>
                /\ PauseStep("OtherDuties")
                /\ workers_absence' = AbsencePush(workers_absence, cur.assignment.owner, cur.d)]_vars

\* a task that was paused on a non-working weekday, which is not in the
\* absence list, and on a worker holiday, which is
C18_Witness ==
    /\ pc = "burn"
    /\ \E i, j \in 1..Len(cur.pause_days) :
        LET a == cur.pause_days[i]
            b == cur.pause_days[j]
            w == cur.assignment.owner
        IN  /\ get_day_info(a, cur.worker_cal, cur.worker) = WorkerHolidays
            /\ get_day_info(b, cur.worker_cal, cur.worker) = NonWorking
            /\ a \in Range(workers_absence[w])
            /\ b \notin Range(workers_absence[w])
            /\ resource_allocation[w][a] = [hours |-> Zero, day |-> "Holidays"]
            /\ resource_allocation[w][b] = [hours |-> Zero, day |-> "PubHolidays"]

\* the burn-down is at a working day of the worker
AtWorkingDay == pc = "burn" /\ cur.d <= MaxDay /\ CurDayInfo.kind = "WorkingDay"
\* the fractional part of the cumulative offset
LeftDay == RMod1(cur.cumulative_days)
\* the offset the step leaves: the running one, or the one the task ended at
OffsetAfter ==
    IF pc' = "burn" THEN cur'.cumulative_days
    ELSE graph'[cur.node].cumulative_days.v
\* the step books the day for the task: with the day scaled by `share` the
\* task burns share of the day's hours and the offset advances by share when
\* it goes on, and books at most 8 * share and moves the offset by at most
\* share in any case; the day's hours are its working hours times the focus
\* factor in force, unscaled
BooksDay(share) ==
    /\ burn_log' = Append(burn_log, burn_log'[Len(burn_log')])
    /\ burn_log'[Len(burn_log')].node = cur.node
    /\ burn_log'[Len(burn_log')].date = cur.d
    /\ RLe(burn_log'[Len(burn_log')].hours, RMul(NominalDay, share))
    /\ RLe(OffsetAfter, RAdd(cur.cumulative_days, share))
    /\ pc' = "burn" =>
            /\ LET ff == IF cur.assignment.focus_factor.some
                         THEN cur.assignment.focus_factor.v
                         ELSE cur.worker.focus_factor
                   full == RMul(FromInt(CurDayInfo.h), ff)
               IN  cur'.hours_to_burn = RSub(cur.hours_to_burn, RMul(full, share))
            /\ cur'.cumulative_days = RAdd(cur.cumulative_days, share)
            /\ burn_log'[Len(burn_log')].hours = RMul(NominalDay, share)

C19_WitnessBelowThreshold ==
    /\ pc = "burn"
    /\ start_offset[cur.node] = Some(Q(1, 16000))
    /\ cur.cumulative_days = Q(16001, 16000)
    /\ cur.d = project_begin + 1
    /\ burn_log # <<>>
    /\ burn_log[Len(burn_log)].node = cur.node
    /\ burn_log[Len(burn_log)].hours = FromInt(8)

\* the burn-down is about to take the branch that divides by the effective
\* hours: hours_to_burn < effective_working_hrs on a working day
AtPartialDay ==
    /\ AtWorkingDay
    /\ RLt(cur.hours_to_burn, CurBudget.effective_working_hrs)
\* every estimate and every focus factor of the input is non-negative
NonNegativeInput ==
    /\ \A i \in 1..Len(proj.tasks) : RLe(Zero, proj.tasks[i].estimate)
    /\ \A i \in 1..Len(proj.team) : RLe(Zero, proj.team[i].focus_factor)
    /\ \A i \in 1..Len(proj.assignments) :
            proj.assignments[i].focus_factor.some =>
                RLe(Zero, proj.assignments[i].focus_factor.v)

\* C20 as claimed: whenever the partial-day branch is taken, the effective
\* hours are greater than 0 and hours_to_burn / effective hours is at most 1,
\* for any input.
C20_AssertionsHold ==
    AtPartialDay =>
        /\ RLt(Zero, CurBudget.effective_working_hrs)
        /\ RLe(RDiv(cur.hours_to_burn, CurBudget.effective_working_hrs), One)

\* the assertions hold when no estimate and no focus factor is negative
C20_AssertionsHoldNonNegative ==
    (NonNegativeInput /\ AtPartialDay) =>
        /\ RLt(Zero, CurBudget.effective_working_hrs)
        /\ RLe(RDiv(cur.hours_to_burn, CurBudget.effective_working_hrs), One)

\* the branch is taken with a non-negative input
C20_WitnessNonNegative == NonNegativeInput /\ AtPartialDay

\* the first assertion fails: a negative estimate on a day of 0 effective hours
C20_ZeroEffectiveHours ==
    AtPartialDay /\ CurBudget.effective_working_hrs = Zero

\* the second assertion fails: estimate -2 days with focus factor -1
C20_FractionAboveOne ==
    /\ AtPartialDay
    /\ CurBudget.effective_working_hrs # Zero
    /\ RLt(One, RDiv(cur.hours_to_burn, CurBudget.effective_working_hrs))

\* C21: finalize leaves every absence entry untouched: an entry of the ledger
\* tagged PubHolidays, Holidays or OtherDuties before finalize has the same
\* tag and the same hours after it, in the ledger and in the returned result,
\* whatever tasks were booked on the same worker and date.
C21_AbsenceUntouched ==
    [][(pc = "loop" /\ task_queue = <<>>) =>
        \A w \in DOMAIN resource_allocation : \A d \in DOMAIN resource_allocation[w] :
            resource_allocation[w][d].day \in AbsenceTags =>
                /\ resource_allocation'[w][d] = resource_allocation[w][d]
                /\ pc' = "ok" =>
                        ret'.data.resource_allocation[w][d] = resource_allocation[w][d]]_vars

\* a returned ledger with an absence entry on a date inside the project span
\* on which two tasks of the worker were paused, next to a day both booked
C21_Witness ==
    /\ pc = "ok"
    /\ \E w \in DOMAIN Ledger : \E d \in DOMAIN Ledger[w] \cap (project_begin..LatestEnd) :
        /\ Ledger[w][d].day \in AbsenceTags
        /\ \E j, k \in LoggedOn(w, d) : burn_log[j].node # burn_log[k].node
        /\ \E c \in DOMAIN Ledger[w] : Ledger[w][c].day = "Overloaded"

\* the positions of the emitted task list that hold the task of node n
EmittedAt(n) == {k \in 1..Len(tasks) : tasks[k].id = proj.tasks[n].id}
\* the steps of the burn-down log that belong to node n
LoggedBy(n) == {k \in 1..Len(burn_log) : burn_log[k].node = n}
\* node n was burnt down in one run: its log steps are next to each other
\* and no date occurs in two of them
OneBurnDown(n) ==
    \A j, k \in LoggedBy(n) :
        /\ \A i \in j..k : i \in LoggedBy(n)
        /\ j # k => burn_log[j].date # burn_log[k].date
\* C22: for an acyclic task graph every task is emitted at most once and its
\* hours reach the ledger in one burn-down, at every point of the run; a
\* task is in the emitted list exactly when its burn-down is finished, and
\* the result process returns holds every task of the input exactly once,
\* however often the node was put on the worklist.
C22_ExactlyOnce ==
    Acyclic =>
        /\ \A n \in Nodes :
            /\ Cardinality(EmittedAt(n)) = (IF Finished(n) THEN 1 ELSE 0)
            /\ OneBurnDown(n)
            /\ LoggedBy(n) # {} => Reached(n)
        /\ Len(tasks) = Cardinality({n \in Nodes : Finished(n)})
        /\ pc = "ok" =>
            /\ Nodes = 1..Len(proj.tasks)
            /\ \A n \in Nodes : Finished(n)
            /\ ret.data.tasks = tasks
            /\ Len(tasks) = Len(proj.tasks)

\* a result of three tasks in which one node was deferred and every node
\* with dependencies was on the worklist more than once
C22_Witness ==
    /\ pc = "ok"
    /\ Acyclic
    /\ Len(tasks) = 3
    /\ deferred # {}
    /\ \E m, n \in Nodes :
        /\ m # n
        /\ Len(graph[m].parents) >= 2 /\ Cardinality(Range(graph[m].parents)) = 1
        /\ Len(graph[n].parents) >= 2 /\ Cardinality(Range(graph[n].parents)) = 2
        /\ LoggedBy(m) # {} /\ LoggedBy(n) # {}

\* C23: every task of the emitted list comes after all the tasks its `after`
\* names, and a task whose processing has begun (burn-down running or done)
\* has every dependency emitted, its cell holding the final offset that was
\* there when the task started.
C23_AfterDependencies ==
    /\ \A k \in 1..Len(tasks) : \A i \in 1..Len(tasks[k].after) :
            \E j \in 1..(k - 1) : tasks[j].id = tasks[k].after[i]
    /\ \A n \in Nodes :
        Reached(n) =>
            \A i \in 1..Len(graph[n].parents) :
                LET p == graph[n].parents[i]
                IN  /\ p # n
                    /\ Finished(p)
                    /\ EmittedAt(p) # {}
                    /\ cur.node = n => EmittedAt(n) = {}
                    /\ start_offset[n].some => RLe(FinalOffset(p), start_offset[n].v)

\* a result in which the first emitted task is not the first of the input:
\* task 1 depends on task 2, and a node was deferred until its last
\* dependency was emitted
C23_Witness ==
    /\ pc = "ok"
    /\ Len(tasks) = 3
    /\ tasks[1].id = 2
    /\ 2 \in Range(tasks[2].after)
    /\ deferred # {}

\* what the claim says of the emitted task t of node n; burnt_on are the
\* dates on which node n booked a working day (whole or in part)
EndOnAsClaimed(n, t) ==
    LET burnt_on == {burn_log[k].date :
                        k \in {j \in LoggedBy(n) : burn_log[j].day \in {"Fine", "Underloaded"}}}
    IN  /\ t.end_on = project_begin + RCeil(FinalOffset(n)) - 1
        /\ t.end_on >= 0
        /\ t.start_on <= t.end_on
        /\ burnt_on # {}
        /\ \A d \in burnt_on : d <= t.end_on
        /\ t.end_on \in burnt_on
        /\ \A i \in 1..Len(t.pause_days) :
            /\ t.start_on <= t.pause_days[i] /\ t.pause_days[i] <= t.end_on
            /\ \A j \in 1..Len(t.pause_days) : i # j => t.pause_days[i] # t.pause_days[j]

\* C24 as claimed: for every emitted task with an estimate >= 0, end_on is
\* project start + ceil(final offset) - 1, a valid date not before start_on,
\* the last working day on which the task burnt hours, and every pause day
\* lies in [start_on, end_on] with no date listed twice.
C24_EndOn ==
    \A n \in Nodes :
        (Finished(n) /\ RLe(Zero, proj.tasks[n].estimate)) => EndOnAsClaimed(n, Emitted(n))

\* the start offset of node n is a whole number of days or more than 0.001
\* past one
StartsClearOfThreshold(n) ==
    start_offset[n].some /\
        (RMod1(start_offset[n].v) = Zero \/ RLt(LeftDayEps, RMod1(start_offset[n].v)))
\* the same for tasks with a positive estimate that start clear of the
\* threshold of the partial-day scaling
C24_EndOnPositive ==
    \A n \in Nodes :
        (Finished(n) /\ RLt(Zero, proj.tasks[n].estimate) /\ StartsClearOfThreshold(n))
            => EndOnAsClaimed(n, Emitted(n))
\* a task of that kind that was paused and ended on a later day
C24_WitnessPositive ==
    \E n \in Nodes :
        /\ Finished(n) /\ RLt(Zero, proj.tasks[n].estimate) /\ StartsClearOfThreshold(n)
        /\ Emitted(n).pause_days # <<>>
        /\ Emitted(n).start_on < Emitted(n).end_on
\* a task with estimate 0 emitted with end_on the day before start_on
C24_EndBeforeStart ==
    \E n \in Nodes :
        /\ Finished(n) /\ proj.tasks[n].estimate = Zero
        /\ Emitted(n).end_on < Emitted(n).start_on

\* C25: the final offset of every finished task is its start offset plus
\* the number of its pause days plus estimate * 8 / (calendar hours per day *
\* focus factor), the focus factor being the assignment's override when it
\* has one and the worker's otherwise.
C25_FinalOffset ==
    \A n \in Nodes :
        Finished(n) =>
            LET hrs == calendars[proj.team[WorkerOf(n)].base_calendar].working_hrs_in_day
                capacity == RMul(FromInt(hrs), FocusOf(n))
            IN  /\ capacity # Zero
                /\ FinalOffset(n) =
                        RAdd(RAdd(start_offset[n].v, FromInt(Len(Emitted(n).pause_days))),
                             RDiv(RMul(proj.tasks[n].estimate, NominalDay), capacity))

\* a finished task with an override that differs from its worker's focus
\* factor, which was paused, took whole days and ended within a day
C25_Witness ==
    \E n \in Nodes :
        /\ Finished(n)
        /\ proj.assignments[AssignmentOf(n)].focus_factor.some
        /\ FocusOf(n) # proj.team[WorkerOf(n)].focus_factor
        /\ Emitted(n).pause_days # <<>>
        /\ \E j, k \in LoggedBy(n) :
                burn_log[j].day = "Fine" /\ burn_log[k].day = "Underloaded"

\* the tasks form one linear chain: one task without dependencies, every
\* other task depends on exactly one task, and no task has two dependents
LinearChain ==
    /\ Acyclic
    /\ Cardinality({i \in 1..Len(proj.tasks) : DepsOf(i) = {}}) = 1
    /\ \A i \in 1..Len(proj.tasks) : Cardinality(DepsOf(i)) <= 1
    /\ \A i, j \in 1..Len(proj.tasks) :
            (i # j /\ DepsOf(i) # {}) => DepsOf(i) # DepsOf(j)
\* every task is assigned to the same worker, whose calendar gives 8 hours,
\* and every estimate is positive
OneWorkerEightHours ==
    /\ \A i \in 1..Len(proj.tasks) :
        /\ AssignmentOf(i) # 0
        /\ proj.assignments[AssignmentOf(i)].owner = proj.assignments[AssignmentOf(1)].owner
        /\ WorkerOf(i) # 0
        /\ RLt(Zero, proj.tasks[i].estimate)
    /\ proj.team[WorkerOf(1)].base_calendar \in DOMAIN calendars
    /\ calendars[proj.team[WorkerOf(1)].base_calendar].working_hrs_in_day = 8
\* no date of the ledger holds more than 8 hours or is Overloaded
NeverOverCommitted(ra) ==
    \A w \in DOMAIN ra : \A d \in DOMAIN ra[w] :
        /\ RLe(ra[w][d].hours, NominalDay)
        /\ ra[w][d].day # "Overloaded"

\* C26 as claimed: for a linear chain of tasks of one worker on an 8-hour
\* calendar with positive estimates, no date ever holds more than 8 hours
\* for the worker and no entry of the finalized ledger is Overloaded.
C26_ChainNeverOverloaded ==
    (LinearChain /\ OneWorkerEightHours) =>
        /\ NeverOverCommitted(resource_allocation)
        /\ pc = "ok" => NeverOverCommitted(Ledger)

\* the same holds when every task starts on a whole day or more than 0.001
\* of a day past one
C26_ChainClearOfThreshold ==
    (LinearChain /\ OneWorkerEightHours
        /\ \A n \in Nodes : start_offset[n].some => StartsClearOfThreshold(n)) =>
        /\ NeverOverCommitted(resource_allocation)
        /\ pc = "ok" => NeverOverCommitted(Ledger)
\* a chain of two tasks that shared a day, returned without over-commitment
C26_WitnessClearOfThreshold ==
    /\ pc = "ok"
    /\ LinearChain /\ OneWorkerEightHours
    /\ \A n \in Nodes : StartsClearOfThreshold(n)
    /\ \E w \in DOMAIN Ledger : \E d \in DOMAIN Ledger[w] :
            \E j, k \in LoggedOn(w, d) :
                /\ burn_log[j].node # burn_log[k].node
                /\ RLt(Zero, burn_log[j].hours) /\ RLt(Zero, burn_log[k].hours)
\* the chain 8001/8000 day, then 1 day: the second day holds 8.001 hours
\* and is Overloaded in the result
C26_Overloaded ==
    /\ pc = "ok"
    /\ LinearChain /\ OneWorkerEightHours
    /\ \E w \in DOMAIN Ledger : \E d \in DOMAIN Ledger[w] :
            Ledger[w][d] = [hours |-> OverloadedFrom, day |-> "Overloaded"]

====
